---- MODULE Spec2Model ----
(***************************************************************************)
(* Wallet-signature sign-in of FST: the three challenge/verify handlers of *)
(* the repository, as one state machine.                                   *)
(*                                                                         *)
(*   flow = "mem"     src/src/auth-nonce.ts   nonces kept in a process Map *)
(*   flow = "db"      routes/auth.ts          nonces kept in Session rows  *)
(*   flow = "cookie"  src/src/server.ts       nonces kept in a signed      *)
(*                                            cookie held by the client    *)
(*                                                                         *)
(* The three handlers are alternative implementations that share no        *)
(* mutable state; Init picks the one that is mounted.  A handler runs      *)
(* atomically between two awaits (Node's event loop), so there is one      *)
(* action per stretch of a handler between awaits.                         *)
(***************************************************************************)
EXTENDS Integers, Sequences, FiniteSets, TLC

\* ------------------------------------------------------------ bounds
MaxTicks  == 3      \* clock advances explored
MaxNonces == 2      \* fresh nonce values generated
MaxTokens == 2      \* session tokens issued
MaxUsers  == 2      \* user rows created

\* ------------------------------------------------------------ constants
NONCE_TTL_MS == 5 * 60 * 1000
ClockStep == NONCE_TTL_MS \div 2

Addr  == {"A", "B"}                  \* well-formed base58 public keys
Procs == {"r1", "r2"}                \* requests that can be in flight together
BadAddress == "not-a-key"            \* a string that is no public key
NoAddress  == ""                     \* a missing / blank address

VARIABLES
    flow,       \* which handler set is mounted
    clients,    \* the addresses the requests of this run are made for
    now,        \* Date.now()
    nextNonce,  \* the next fresh random nonce value
    nonces,     \* auth-nonce.ts: Map address -> {nonce, expiresAt}
    sessions,   \* routes/auth.ts: prisma.session rows 'nonce:<address>' -> {jwtId, expiresAt}
    cookies,    \* server.ts: the signed 'nonce' cookies handed to clients
    wallets,    \* prisma.wallet rows, in creation order
    users,      \* prisma.user ids
    nextUser,   \* the next fresh randomUUID for a user
    pc,         \* per request: the await it is suspended on ("idle": none)
    req,        \* per request: the handler's locals that live across awaits
    issued,     \* log of the session tokens handed out
    out,        \* the last HTTP response sent
    lastChallenge,  \* history: per address, the challenge the last nonce response
                    \* returned, forgotten when a verify for the address succeeds
    secret,     \* process.env.JWT_SECRET is set
    proc,       \* the server process: "boot", "up" or "exited"
    jwts,       \* the session tokens that issueJWT has signed
    mw,         \* what the auth middleware did with the last request it saw
    adminAddresses,  \* process.env.ADMIN_ADDRESSES, as the set of its entries
    admins,     \* the ids of the User rows whose role is ADMIN (default: USER)
    adm,        \* what requireAdmin did with the last request it saw
    generatedAt, \* history: per address, the time the stored nonce was generated
    entries     \* contests.public.ts: prisma.contestEntry rows

\* The state of the session-token issuer and its consumer.
adminVars == <<adminAddresses, admins, adm>>
tokenVars == <<secret, proc, jwts, mw, adminVars, entries>>

vars == <<flow, clients, now, nextNonce, nonces, sessions, cookies, wallets, users, nextUser, pc, req,
          issued, out, lastChallenge, secret, proc, jwts, mw, adminAddresses, admins, adm,
          generatedAt, entries>>

\* ------------------------------------------------------------ values
NonceVals == 0 .. MaxNonces          \* 0: a value the server never issued

\* A detached ed25519 signature is determined by the signing key and the
\* message bytes; the public key of a wallet is its address.
\* len: the number of bytes the signature field decodes to.
SIGNATURE_BYTES == 64
Sign(key, msg) == [key |-> key, msg |-> msg, len |-> SIGNATURE_BYTES]
NoSig == [key |-> "", msg |-> 0, len |-> 0]     \* the field is absent from the request
\* A signature field whose text does not decode: atob and bs58.decode throw
\* on it, Buffer.from(s, "base64") skips what it cannot read.
Undecodable == [key |-> "", msg |-> 0, len |-> 0 - 1]
\* A signature cut short or with bytes appended.
Resized(sig, len) == [sig EXCEPT !.len = len]
\* nacl.sign.detached.verify throws ('bad signature size') unless the
\* signature has exactly 64 bytes.
NaclThrows(sig) == sig.len # SIGNATURE_BYTES
\* nacl.sign.detached.verify(msg, sig, pub)
DetachedVerify(msg, sig, pub) == sig.key = pub /\ sig.msg = msg

\* Mutant: every string is taken for a public key.
IsPublicKey_AcceptsAnything(a) == TRUE

\* new PublicKey(address) succeeds
IsPublicKey(a) == a \in Addr

IdleReq == [address |-> NoAddress, nonce |-> 0, userId |-> 0, expiresAt |-> 0]
InFlight(address, nonce, userId, expiresAt) ==
    [address |-> address, nonce |-> nonce, userId |-> userId, expiresAt |-> expiresAt]

\* An HTTP response: the status and the body's error text ("" on success),
\* with the address of the request and its nonce (for a nonce request: the
\* nonce in the body).
Response(address, nonce, status, error) ==
    [address |-> address, nonce |-> nonce, status |-> status, error |-> error]

\* The challenge a nonce response hands out, as the history remembers it.
Given(rec, at) == [nonce |-> rec.nonce, expiresAt |-> rec.expiresAt, at |-> at]

\* jwt.sign({ sub, addr }); nonce: the challenge the token was issued for.
Token(sub, address, nonce) == [sub |-> sub, addr |-> address, nonce |-> nonce]

\* A session token: the claims of JWTPayload, the times jsonwebtoken adds
\* (seconds), and the secret it is signed with.
NoRole == ""                         \* role: undefined
Jwt(uid, address, role, iat, exp, key) ==
    [uid |-> uid, address |-> address, role |-> role, iat |-> iat, exp |-> exp, key |-> key]
NoJwt == Jwt("", "", NoRole, 0, 0, "")   \* the request carries no token

\* The auth middleware's doing: the token it was handed in the header, the
\* 401 it answered (status 0: it answered nothing) and whether it called
\* next().
Verdict(token, status, error, next) ==
    [token |-> token, status |-> status, error |-> error, next |-> next]
NoVerdict == Verdict(NoJwt, 0, "", FALSE)

\* Map operations
MapSet(m, k, v) == [x \in DOMAIN m \cup {k} |-> IF x = k THEN v ELSE m[x]]
MapDelete(m, k) == [x \in DOMAIN m \ {k} |-> m[x]]
\* The history of the records that the store still holds.
KeptHistory(history, store) == [x \in DOMAIN store |-> history[x]]

\* ------------------------------------------------------------ Init
Init ==
    /\ flow \in {"mem", "db", "cookie"}
    /\ clients \in {{"A"}, {BadAddress}}
    /\ now = 0
    /\ nextNonce = 1
    /\ nonces = << >>
    /\ sessions = << >>
    /\ cookies = {}
    /\ wallets = << >>
    /\ users = {}
    /\ nextUser = 1
    /\ pc = [p \in Procs |-> "idle"]
    /\ req = [p \in Procs |-> IdleReq]
    /\ issued = << >>
    /\ out = Response(NoAddress, 0, 0, "")
    /\ lastChallenge = << >>
    /\ secret = TRUE
    /\ proc = "up"
    /\ jwts = {}
    /\ mw = NoVerdict
    /\ adminAddresses = {}
    /\ admins = {}
    /\ adm = NoVerdict
    /\ generatedAt = << >>
    /\ entries = {}

\* The clock moves on.
Tick ==
    /\ now < MaxTicks * ClockStep
    /\ now' = now + ClockStep
    /\ UNCHANGED <<tokenVars, flow, clients, nextNonce, nonces, generatedAt, sessions, cookies, wallets, users, nextUser, pc, req,
                   issued, out, lastChallenge>>

\* ============================================================ auth-nonce.ts
\* Mutant: the handler never returns the stored nonce again.
MemIssueReuses_Never(address) == FALSE

\* Mutant: a stored nonce is returned again whatever its age.
MemIssueReuses_Always(address) == address \in DOMAIN nonces

\* POST /auth/nonce, line 52: an unexpired nonce is returned again.
MemIssueReuses(address) ==
    address \in DOMAIN nonces /\ nonces[address].expiresAt > now

\* Mutant: returning the stored nonce again renews its expiry.
MemNonce_ExtendsOnReuse(address) ==
    /\ flow = "mem"
    /\ IF address = NoAddress THEN
          /\ out' = Response(address, 0, 400, "address required")
          /\ UNCHANGED <<nonces, generatedAt, nextNonce, lastChallenge>>
       ELSE IF ~IsPublicKey(address) THEN
          /\ out' = Response(address, 0, 400, "Invalid walletAddress")
          /\ UNCHANGED <<nonces, generatedAt, nextNonce, lastChallenge>>
       ELSE IF MemIssueReuses(address) THEN
          /\ out' = Response(address, nonces[address].nonce, 200, "")
          /\ nonces' = [nonces EXCEPT ![address].expiresAt = now + NONCE_TTL_MS]
          /\ lastChallenge' = MapSet(lastChallenge, address, Given(nonces'[address], now))
          /\ UNCHANGED <<generatedAt, nextNonce>>
       ELSE
          /\ nextNonce <= MaxNonces
          /\ nonces' = MapSet(nonces, address,
                              [nonce |-> nextNonce, expiresAt |-> now + NONCE_TTL_MS])
          /\ generatedAt' = MapSet(generatedAt, address, now)
          /\ nextNonce' = nextNonce + 1
          /\ out' = Response(address, nextNonce, 200, "")
          /\ lastChallenge' = MapSet(lastChallenge, address, Given(nonces'[address], now))
    /\ UNCHANGED <<tokenVars, flow, clients, now, sessions, cookies, wallets, users, nextUser, pc, req, issued>>

\* POST /auth/nonce: the whole handler is synchronous.
MemNonce(address) ==
    /\ flow = "mem"
    /\ IF address = NoAddress THEN
          /\ out' = Response(address, 0, 400, "address required")
          /\ UNCHANGED <<nonces, generatedAt, nextNonce, lastChallenge>>
       ELSE IF ~IsPublicKey(address) THEN
          /\ out' = Response(address, 0, 400, "Invalid walletAddress")
          /\ UNCHANGED <<nonces, generatedAt, nextNonce, lastChallenge>>
       ELSE IF MemIssueReuses(address) THEN
          /\ out' = Response(address, nonces[address].nonce, 200, "")
          /\ lastChallenge' = MapSet(lastChallenge, address, Given(nonces[address], now))
          /\ UNCHANGED <<nonces, generatedAt, nextNonce>>
       ELSE
          /\ nextNonce <= MaxNonces
          /\ nonces' = MapSet(nonces, address,
                              [nonce |-> nextNonce, expiresAt |-> now + NONCE_TTL_MS])
          /\ generatedAt' = MapSet(generatedAt, address, now)
          /\ nextNonce' = nextNonce + 1
          /\ out' = Response(address, nextNonce, 200, "")
          /\ lastChallenge' = MapSet(lastChallenge, address, Given(nonces'[address], now))
    /\ UNCHANGED <<tokenVars, flow, clients, now, sessions, cookies, wallets, users, nextUser, pc, req, issued>>

\* Mutant: the nonce is compared before the expiry is looked at.
MemVerifyChecks_MismatchFirst(address, nonce, sig) ==
    IF ~IsPublicKey(address) THEN "Invalid public key input"
    ELSE IF address \notin DOMAIN nonces THEN "Nonce not found. Get a new nonce."
    ELSE IF nonces[address].nonce # nonce THEN "Nonce mismatch"
    ELSE IF nonces[address].expiresAt < now THEN "Nonce expired. Get a new nonce."
    ELSE IF NaclThrows(sig) THEN "bad signature size"
    ELSE IF ~DetachedVerify(nonce, sig, address) THEN "Invalid signature"
    ELSE "pass"

\* Mutant: the supplied nonce is not compared with the stored one.
MemVerifyChecks_AnyNonce(address, nonce, sig) ==
    IF ~IsPublicKey(address) THEN "Invalid public key input"
    ELSE IF address \notin DOMAIN nonces THEN "Nonce not found. Get a new nonce."
    ELSE IF nonces[address].expiresAt < now THEN "Nonce expired. Get a new nonce."
    ELSE IF NaclThrows(sig) THEN "bad signature size"
    ELSE IF ~DetachedVerify(nonce, sig, address) THEN "Invalid signature"
    ELSE "pass"

\* Mutant: the mismatch answer names the nonce that was expected.
MemVerifyChecksIn_EchoesStored(store, address, nonce, sig) ==
    IF ~IsPublicKey(address) THEN "Invalid public key input"
    ELSE IF address \notin DOMAIN store THEN "Nonce not found. Get a new nonce."
    ELSE IF store[address].expiresAt < now THEN "Nonce expired. Get a new nonce."
    ELSE IF store[address].nonce # nonce
         THEN "Nonce mismatch, expected " \o ToString(store[address].nonce)
    ELSE IF NaclThrows(sig) THEN "bad signature size"
    ELSE IF ~DetachedVerify(nonce, sig, address) THEN "Invalid signature"
    ELSE "pass"

\* POST /auth/verify, lines 83-97, as a function of the Map it reads: the
\* checks made before the first await.  The outcome is the error the
\* handler answers with, or "pass".
MemVerifyChecksIn(store, address, nonce, sig) ==
    IF ~IsPublicKey(address) THEN "Invalid public key input"
    ELSE IF address \notin DOMAIN store THEN "Nonce not found. Get a new nonce."
    ELSE IF store[address].expiresAt < now THEN "Nonce expired. Get a new nonce."
    ELSE IF store[address].nonce # nonce THEN "Nonce mismatch"
    ELSE IF NaclThrows(sig) THEN "bad signature size"
    ELSE IF ~DetachedVerify(nonce, sig, address) THEN "Invalid signature"
    ELSE "pass"

\* The checks against the process's Map.
MemVerifyChecks(address, nonce, sig) == MemVerifyChecksIn(nonces, address, nonce, sig)

\* Mutant: a failed signature check consumes the nonce.
MemVerifyStore_DropOnBadSignature(address, nonce, sig) ==
    IF MemVerifyChecks(address, nonce, sig)
          \in {"Nonce expired. Get a new nonce.", "Invalid signature"}
    THEN MapDelete(nonces, address)
    ELSE nonces

\* Mutant: a mismatching nonce drops the stored challenge.
MemVerifyStore_DropOnMismatch(address, nonce, sig) ==
    IF MemVerifyChecks(address, nonce, sig)
          \in {"Nonce expired. Get a new nonce.", "Nonce mismatch"}
    THEN MapDelete(nonces, address)
    ELSE nonces

\* What the checks do to the Map: only an expired record is dropped.
MemVerifyStore(address, nonce, sig) ==
    IF MemVerifyChecks(address, nonce, sig) = "Nonce expired. Get a new nonce."
    THEN MapDelete(nonces, address)
    ELSE nonces

MemVerifyStatus(error) == IF error = "Invalid signature" THEN 401 ELSE 400

MemVerifyStart(p, address, nonce, sig) ==
    /\ flow = "mem"
    /\ pc[p] = "idle"
    /\ LET r == MemVerifyChecks(address, nonce, sig) IN
       /\ nonces' = MemVerifyStore(address, nonce, sig)
       /\ generatedAt' = KeptHistory(generatedAt, nonces')
       /\ IF r = "pass" THEN
             /\ pc' = [pc EXCEPT ![p] = "findWallet"]
             /\ req' = [req EXCEPT ![p] = InFlight(address, nonce, 0, 0)]
             /\ UNCHANGED out
          ELSE
             /\ out' = Response(address, nonce, MemVerifyStatus(r), r)
             /\ UNCHANGED <<pc, req>>
    /\ UNCHANGED <<tokenVars, flow, clients, now, nextNonce, sessions, cookies, wallets, users, nextUser, issued,
                   lastChallenge>>

\* prisma.wallet.findFirst({ where: { address } }): the userId, 0 for null
FindFirstWallet(address) ==
    LET idx == {i \in 1 .. Len(wallets) : wallets[i].address = address} IN
    IF idx = {} THEN 0
    ELSE wallets[CHOOSE i \in idx : \A j \in idx : i <= j].userId

\* Mutant: a successful verify empties the whole Map.
MemFinishStore_ClearsAll(address) == << >>

\* Mutant: the nonce is not deleted after a successful verify.
MemFinishStore_Keeps(address) == nonces

\* Line 117: nonces.delete(address)
MemFinishStore(address) == MapDelete(nonces, address)

\* Lines 114-126: sign the token, delete the nonce, answer.
MemFinish(p, userId) ==
    /\ Len(issued) < MaxTokens
    /\ issued' = Append(issued, Token(userId, req[p].address, req[p].nonce))
    /\ nonces' = MemFinishStore(req[p].address)
    /\ generatedAt' = KeptHistory(generatedAt, nonces')
    /\ out' = Response(req[p].address, req[p].nonce, 200, "")
    /\ pc' = [pc EXCEPT ![p] = "idle"]
    /\ req' = [req EXCEPT ![p] = IdleReq]
    /\ lastChallenge' = MapDelete(lastChallenge, req[p].address)

\* A rejected prisma call lands in the handler's catch: 400 with the message.
MemDbError(p) ==
    /\ flow = "mem"
    /\ pc[p] \in {"findWallet", "createUser", "createWallet"}
    /\ out' = Response(req[p].address, req[p].nonce, 400, "prisma error")
    /\ pc' = [pc EXCEPT ![p] = "idle"]
    /\ req' = [req EXCEPT ![p] = IdleReq]
    /\ UNCHANGED <<tokenVars, flow, clients, now, nextNonce, nonces, generatedAt, sessions, cookies, wallets, users, nextUser,
                   issued, lastChallenge>>

\* await prisma.wallet.findFirst resolves.
MemFindWallet(p) ==
    /\ flow = "mem"
    /\ pc[p] = "findWallet"
    /\ LET uid == FindFirstWallet(req[p].address) IN
       IF uid # 0 THEN
          /\ MemFinish(p, uid)
          /\ UNCHANGED <<tokenVars, flow, clients, now, nextNonce, sessions, cookies, wallets, users, nextUser>>
       ELSE
          /\ pc' = [pc EXCEPT ![p] = "createUser"]
          /\ UNCHANGED <<tokenVars, flow, clients, now, nextNonce, nonces, generatedAt, sessions, cookies, wallets, users, nextUser,
                         req, issued, out, lastChallenge>>

\* await prisma.user.create resolves.
MemCreateUser(p) ==
    /\ flow = "mem"
    /\ pc[p] = "createUser"
    /\ nextUser <= MaxUsers
    /\ users' = users \cup {nextUser}
    /\ nextUser' = nextUser + 1
    /\ req' = [req EXCEPT ![p].userId = nextUser]
    /\ pc' = [pc EXCEPT ![p] = "createWallet"]
    /\ UNCHANGED <<tokenVars, flow, clients, now, nextNonce, nonces, generatedAt, sessions, cookies, wallets, issued, out,
                   lastChallenge>>

\* await prisma.wallet.create resolves.
MemCreateWallet(p) ==
    /\ flow = "mem"
    /\ pc[p] = "createWallet"
    /\ wallets' = Append(wallets, [userId |-> req[p].userId, address |-> req[p].address])
    /\ MemFinish(p, req[p].userId)
    /\ UNCHANGED <<tokenVars, flow, clients, now, nextNonce, sessions, cookies, users, nextUser>>

\* ============================================================ routes/auth.ts
\* GET /nonce and POST /nonce up to the session upsert: createAndStoreNonce
\* makes a new nonce, upserts the user row (User.id = address) and computes
\* the expiry it hands to prisma.session.upsert.
DbNonceStart(p, address) ==
    /\ flow = "db"
    /\ pc[p] = "idle"
    /\ IF address = NoAddress THEN
          /\ out' = Response(address, 0, 400, "address is required")
          /\ UNCHANGED <<nextNonce, users, pc, req>>
       ELSE
          /\ nextNonce <= MaxNonces
          /\ nextNonce' = nextNonce + 1
          /\ users' = users \cup {address}
          /\ req' = [req EXCEPT ![p] = InFlight(address, nextNonce, 0, now + NONCE_TTL_MS)]
          /\ pc' = [pc EXCEPT ![p] = "sessionUpsert"]
          /\ UNCHANGED out
    /\ UNCHANGED <<tokenVars, flow, clients, now, nonces, generatedAt, sessions, cookies, wallets, nextUser, issued, lastChallenge>>

\* prisma.session.upsert, lines 41-51: the row of the address is overwritten.
DbUpsertSession(address, nonce, expiresAt) ==
    MapSet(sessions, address, [nonce |-> nonce, expiresAt |-> expiresAt])

\* await prisma.session.upsert resolves; the route answers { nonce }.
DbNonceStore(p) ==
    /\ flow = "db"
    /\ pc[p] = "sessionUpsert"
    /\ sessions' = DbUpsertSession(req[p].address, req[p].nonce, req[p].expiresAt)
    /\ out' = Response(req[p].address, sessions'[req[p].address].nonce, 200, "")
    /\ lastChallenge' = MapSet(lastChallenge, req[p].address,
                               Given(sessions'[req[p].address], now))
    /\ pc' = [pc EXCEPT ![p] = "idle"]
    /\ req' = [req EXCEPT ![p] = IdleReq]
    /\ UNCHANGED <<tokenVars, flow, clients, now, nextNonce, nonces, generatedAt, cookies, wallets, users, nextUser, issued>>

\* verifySolanaSignatureBase64 / verifySolanaSignatureBase58: new PublicKey
\* throws on a malformed address and nacl on a signature of another size
\* than 64 bytes, which the handler's try/catch turns into "not ok".
VerifySolanaSignature(address, message, sig) ==
    IsPublicKey(address) /\ ~NaclThrows(sig) /\ DetachedVerify(message, sig, address)

\* verifySolanaSignatureBase64 / Base58 end in an exception: new PublicKey
\* or the decoding throws, or nacl is handed other than 64 bytes.
VerifySolanaThrows(address, sig) == ~IsPublicKey(address) \/ NaclThrows(sig)

\* POST /verify, lines 136-146: both verifications sit in one try block, so
\* an exception in the base-64 one skips the base-58 one and leaves ok false.
DbSignatureOk(address, nonce, sigB64, sig58) ==
    IF sigB64 # NoSig /\ VerifySolanaThrows(address, sigB64) THEN FALSE
    ELSE IF sigB64 # NoSig /\ VerifySolanaSignature(address, nonce, sigB64) THEN TRUE
    ELSE sig58 # NoSig /\ VerifySolanaSignature(address, nonce, sig58)

\* POST /verify, lines 98-151, as a function of the Session rows it reads:
\* the outcome of the checks after findUnique.
DbVerifyChecksIn(store, address, nonce, sigB64, sig58) ==
    IF address = NoAddress \/ (sigB64 = NoSig /\ sig58 = NoSig)
    THEN "address, nonce and signature are required"
    ELSE IF address \notin DOMAIN store THEN "nonce invalid or expired"
    ELSE IF store[address].nonce # nonce THEN "nonce invalid or expired"
    ELSE IF store[address].expiresAt < now THEN "nonce invalid or expired"
    ELSE IF ~DbSignatureOk(address, nonce, sigB64, sig58) THEN "invalid signature"
    ELSE "pass"

\* The checks against the Session table.
DbVerifyChecks(address, nonce, sigB64, sig58) ==
    DbVerifyChecksIn(sessions, address, nonce, sigB64, sig58)

\* await prisma.session.findUnique resolves and the handler runs to the
\* delete.
DbVerifyLookup(p, address, nonce, sigB64, sig58) ==
    /\ flow = "db"
    /\ pc[p] = "idle"
    /\ LET r == DbVerifyChecks(address, nonce, sigB64, sig58) IN
       IF r = "pass" THEN
          /\ pc' = [pc EXCEPT ![p] = "deleteSession"]
          /\ req' = [req EXCEPT ![p] = InFlight(address, nonce, 0, 0)]
          /\ UNCHANGED out
       ELSE
          /\ out' = Response(address, nonce, 400, r)
          /\ UNCHANGED <<pc, req>>
    /\ UNCHANGED <<tokenVars, flow, clients, now, nextNonce, nonces, generatedAt, sessions, cookies, wallets, users, nextUser,
                   issued, lastChallenge>>

\* prisma.session.delete({ where: { id: `nonce:${addr}` } }).catch(() => {})
DbDeleteSession(address, deleted) ==
    IF deleted THEN MapDelete(sessions, address) ELSE sessions

\* await prisma.session.delete(...).catch resolves; the token is issued.
\* deleted = FALSE: the delete was rejected, which the catch swallows.
DbVerifyFinish(p, deleted) ==
    /\ flow = "db"
    /\ pc[p] = "deleteSession"
    /\ Len(issued) < MaxTokens
    /\ sessions' = DbDeleteSession(req[p].address, deleted)
    /\ issued' = Append(issued, Token(req[p].address, req[p].address, req[p].nonce))
    /\ out' = Response(req[p].address, req[p].nonce, 200, "")
    /\ lastChallenge' = MapDelete(lastChallenge, req[p].address)
    /\ pc' = [pc EXCEPT ![p] = "idle"]
    /\ req' = [req EXCEPT ![p] = IdleReq]
    /\ UNCHANGED <<tokenVars, flow, clients, now, nextNonce, nonces, generatedAt, cookies, wallets, users, nextUser>>

\* ============================================================ server.ts
COOKIE_TTL_MS == 5 * 60 * 1000

\* GET /auth/nonce, lines 167-172: the text to sign is composed from the
\* wallet, the fresh nonce and the issue time.  The nonce is unique, so the
\* text is identified by the nonce it carries; 0 stands for a text that is
\* no challenge message of this server.
ChallengeMessage(wallet, nonce, issuedAt) == nonce

\* signNonceCookie: jwt.sign({ t: "nonce", wallet, nonce, msg }, { expiresIn: "5m" })
SignNonceCookie(wallet, nonce, msg) ==
    [wallet |-> wallet, nonce |-> nonce, msg |-> msg, exp |-> now + COOKIE_TTL_MS]

NoCookie == [wallet |-> NoAddress, nonce |-> 0, msg |-> 0, exp |-> 0]

\* jwt.verify(nonceCookie, JWT_SECRET): signed by this server and not expired
JwtVerifyCookie(c) == c \in cookies /\ now < c.exp

\* GET /auth/nonce: synchronous; the server keeps nothing, the challenge
\* lives in the cookie.
CookieNonce(wallet) ==
    /\ flow = "cookie"
    /\ IF wallet = NoAddress THEN
          /\ out' = Response(wallet, 0, 400, "Missing wallet param")
          /\ UNCHANGED <<nextNonce, cookies>>
       ELSE
          /\ nextNonce <= MaxNonces
          /\ nextNonce' = nextNonce + 1
          /\ cookies' = cookies \cup
                {SignNonceCookie(wallet, nextNonce, ChallengeMessage(wallet, nextNonce, now))}
          /\ out' = Response(wallet, nextNonce, 200, "")
    /\ UNCHANGED <<tokenVars, flow, clients, now, nonces, generatedAt, sessions, wallets, users, nextUser, pc, req, issued,
                   lastChallenge>>

NoMessage == 0 - 1                   \* the body carries no message

\* Mutant: a message in the body is preferred to the cookie's.
CookieVerifyMessage_BodyFirst(walletAddress, cookie, bodyMessage) ==
    IF bodyMessage # NoMessage THEN bodyMessage ELSE cookie.msg

\* POST /auth/verify, lines 203-216: the message whose signature is checked.
CookieVerifyMessage(walletAddress, cookie, bodyMessage) ==
    IF cookie # NoCookie /\ JwtVerifyCookie(cookie) THEN cookie.msg ELSE bodyMessage

\* POST /auth/verify, lines 201-239: the error the handler answers with, or
\* "pass".
CookieVerifyChecks(walletAddress, cookie, bodyMessage, sigB64, sig58) ==
    LET valid == cookie # NoCookie /\ JwtVerifyCookie(cookie)
        sig == IF sigB64 # NoSig THEN sigB64 ELSE sig58
    IN
    IF walletAddress = NoAddress THEN "walletAddress is required"
    ELSE IF valid /\ cookie.wallet # walletAddress THEN "Wallet mismatch with nonce"
    ELSE IF ~valid /\ bodyMessage = NoMessage THEN "Missing nonce message"
    ELSE IF sig = NoSig THEN "Missing signature"
    ELSE IF sig.len < SIGNATURE_BYTES THEN "Signature length invalid"
    ELSE IF ~IsPublicKey(walletAddress) THEN "walletAddress must be base58"
    ELSE IF NaclThrows(sig) THEN "Internal error"
    ELSE IF ~DetachedVerify(CookieVerifyMessage(walletAddress, cookie, bodyMessage),
                            sig, walletAddress)
         THEN "Invalid signature"
    ELSE "pass"

CookieVerifyStatus(error) ==
    IF error = "Invalid signature" THEN 401
    ELSE IF error = "Internal error" THEN 500
    ELSE 400

\* POST /auth/verify with USE_DB off: synchronous.  clearCookie only asks the
\* client to drop its cookie.
CookieVerify(walletAddress, cookie, bodyMessage, sigB64, sig58) ==
    /\ flow = "cookie"
    /\ LET r == CookieVerifyChecks(walletAddress, cookie, bodyMessage, sigB64, sig58) IN
       IF r = "pass" THEN
          /\ Len(issued) < MaxTokens
          /\ issued' = Append(issued,
                Token(nextUser, walletAddress,
                      CookieVerifyMessage(walletAddress, cookie, bodyMessage)))
          /\ nextUser' = nextUser + 1
          /\ out' = Response(walletAddress, issued'[Len(issued')].nonce, 200, "")
       ELSE
          /\ out' = Response(walletAddress, 0, CookieVerifyStatus(r), r)
          /\ UNCHANGED <<issued, nextUser>>
    /\ UNCHANGED <<tokenVars, flow, clients, now, nextNonce, nonces, generatedAt, sessions, cookies, wallets, users, pc, req,
                   lastChallenge>>

\* ------------------------------------------------------------ Next
\* The signatures a request can carry for a nonce: the wallet's own
\* signature of it, another key's signature of it, the wallet's signature of
\* another text.
Signatures(address, nonce) ==
    {Sign(address, nonce), Sign("B", nonce), Sign(address, 0)}

\* The (base64, base58) signature fields of a request: one field alone,
\* both fields (another key's signature, then the wallet's), or none.
SignaturePairs(address, msg) ==
    {<<s, NoSig>> : s \in Signatures(address, msg)}
        \cup {<<NoSig, Sign(address, msg)>>, <<Sign("B", msg), Sign(address, msg)>>,
              <<NoSig, NoSig>>}

\* Signature fields that do not decode to 64 bytes: the wallet's signature
\* with the last byte missing, and with one byte appended.
SizedPairs(address, msg) ==
    {<<Resized(Sign(address, msg), SIGNATURE_BYTES - 1), NoSig>>,
     <<Resized(Sign(address, msg), SIGNATURE_BYTES + 1), NoSig>>}

\* Both fields sent, the base-58 one holding the wallet's signature and the
\* base-64 one a text that does not decode, or a signature cut short.
FallbackPairs(address, msg) ==
    {<<Undecodable, Sign(address, msg)>>,
     <<Resized(Sign(address, msg), SIGNATURE_BYTES - 1), Sign(address, msg)>>}

\* The address field of a request: one of the clients' addresses, or blank.
AddrInputs == clients \cup {NoAddress}

\* A verify without address is answered before its other fields are looked
\* at: the one with the first choice of the other fields stands for all.
BlankOnce(a, first) == a = NoAddress => first

\* Requests are anonymous: a new one takes the first free slot.
FirstIdle(p) == pc[p] = "idle" /\ (p = "r2" => pc["r1"] # "idle")

Next ==
    \/ Tick
    \/ \E a \in AddrInputs : MemNonce(a)
    \/ \E p \in Procs, a \in AddrInputs, n \in 0 .. (nextNonce - 1) :
          \E s \in Signatures(a, n) :
             /\ FirstIdle(p)
             /\ BlankOnce(a, n = 0 /\ s = Sign(a, n))
             /\ MemVerifyStart(p, a, n, s)
    \/ \E p \in Procs : MemFindWallet(p)
    \/ \E p \in Procs : MemCreateUser(p)
    \/ \E p \in Procs : MemCreateWallet(p)
    \/ \E p \in Procs : MemDbError(p)
    \/ \E p \in Procs, a \in AddrInputs : FirstIdle(p) /\ DbNonceStart(p, a)
    \/ \E p \in Procs : DbNonceStore(p)
    \/ \E p \in Procs, a \in AddrInputs, n \in 0 .. (nextNonce - 1) :
          \E sigs \in SignaturePairs(a, n) :
             /\ FirstIdle(p)
             /\ BlankOnce(a, n = 0 /\ sigs = <<Sign(a, n), NoSig>>)
             /\ DbVerifyLookup(p, a, n, sigs[1], sigs[2])
    \/ \E p \in Procs, deleted \in BOOLEAN : DbVerifyFinish(p, deleted)
    \/ \E a \in AddrInputs : CookieNonce(a)
    \/ \E a \in AddrInputs, c \in cookies \cup {NoCookie} :
          \E b \in {NoMessage, 0, c.msg} :
             \E sigs \in SignaturePairs(a, c.msg) \cup SizedPairs(a, c.msg) :
                /\ BlankOnce(a, c = NoCookie /\ b = NoMessage
                                 /\ sigs = <<Sign(a, c.msg), NoSig>>)
                /\ CookieVerify(a, c, b, sigs[1], sigs[2])

Spec == Init /\ [][Next]_vars

\* ------------------------------------------------- the fields of a verify
\* routes/auth.ts or server.ts handing challenges to one wallet, with verify
\* requests that fill the address, message and signature fields in every
\* way: both signature fields, fields that do not decode, a body message
\* next to the cookie, the cookie presented for another wallet.
InitFields ==
    /\ flow \in {"db", "cookie"}
    /\ clients = {"A"}
    /\ now = 0
    /\ nextNonce = 1
    /\ nonces = << >>
    /\ sessions = << >>
    /\ cookies = {}
    /\ wallets = << >>
    /\ users = {}
    /\ nextUser = 1
    /\ pc = [p \in Procs |-> "idle"]
    /\ req = [p \in Procs |-> IdleReq]
    /\ issued = << >>
    /\ out = Response(NoAddress, 0, 0, "")
    /\ lastChallenge = << >>
    /\ secret = TRUE
    /\ proc = "up"
    /\ jwts = {}
    /\ mw = NoVerdict
    /\ adminAddresses = {}
    /\ admins = {}
    /\ adm = NoVerdict
    /\ generatedAt = << >>
    /\ entries = {}

\* What the body of a server.ts verify carries as message next to cookie c.
BodyMessages(c) == {NoMessage, 0, c.msg}

\* The signature fields next to a cookie's message and a body message: the
\* wallet's signature of the one or of the other in the base-64 field, or
\* both fields, the base-58 one holding the wallet's signature of the
\* cookie's message and the base-64 one another key's signature or a text
\* that does not decode.
FieldPairs(a, msg, b) ==
    {<<Sign(a, msg), NoSig>>, <<Sign(a, b), NoSig>>,
     <<Sign("B", msg), Sign(a, msg)>>, <<Undecodable, Sign(a, msg)>>}

\* A wallet that was handed no challenge presents the unexpired cookie of
\* another wallet with its own signature of the cookie's message.
PresentsForeignCookie(a, c, b, sigs) ==
    /\ c # NoCookie
    /\ JwtVerifyCookie(c)
    /\ b = NoMessage
    /\ sigs = <<Sign(a, c.msg), NoSig>>

NextFields ==
    \/ Tick
    \/ \E a \in clients : DbNonceStart("r1", a)
    \/ DbNonceStore("r1")
    \/ \E a \in clients, n \in 1 .. (nextNonce - 1) :
          \E sigs \in SignaturePairs(a, n) \cup FallbackPairs(a, n) :
             DbVerifyLookup("r1", a, n, sigs[1], sigs[2])
    \/ \E deleted \in BOOLEAN : DbVerifyFinish("r1", deleted)
    \/ \E a \in clients : CookieNonce(a)
    \/ \E a \in Addr, c \in cookies \cup {NoCookie} :
          \E b \in BodyMessages(c) :
             \E sigs \in FieldPairs(a, c.msg, b) :
                /\ a \notin clients => PresentsForeignCookie(a, c, b, sigs)
                /\ CookieVerify(a, c, b, sigs[1], sigs[2])

SpecFields == InitFields /\ [][NextFields]_vars

\* ------------------------------------------------- two wallets, one Map
\* auth-nonce.ts serving two wallets: the requests of A and of B interleave.
InitIndep ==
    /\ flow = "mem"
    /\ clients = {"A", "B"}
    /\ now = 0
    /\ nextNonce = 1
    /\ nonces = << >>
    /\ sessions = << >>
    /\ cookies = {}
    /\ wallets = << >>
    /\ users = {}
    /\ nextUser = 1
    /\ pc = [p \in Procs |-> "idle"]
    /\ req = [p \in Procs |-> IdleReq]
    /\ issued = << >>
    /\ out = Response(NoAddress, 0, 0, "")
    /\ lastChallenge = << >>
    /\ secret = TRUE
    /\ proc = "up"
    /\ jwts = {}
    /\ mw = NoVerdict
    /\ adminAddresses = {}
    /\ admins = {}
    /\ adm = NoVerdict
    /\ generatedAt = << >>
    /\ entries = {}

\* The wallets sign the nonce they send; the identity store answers.
NextIndep ==
    \/ Tick
    \/ \E a \in clients : MemNonce(a)
    \/ \E p \in Procs, a \in clients, n \in 1 .. (nextNonce - 1) :
          FirstIdle(p) /\ MemVerifyStart(p, a, n, Sign(a, n))
    \/ \E p \in Procs : MemFindWallet(p)
    \/ \E p \in Procs : MemCreateUser(p)
    \/ \E p \in Procs : MemCreateWallet(p)

SpecIndep == InitIndep /\ [][NextIndep]_vars

\* ------------------------------------------------- the identity store answers
\* auth-nonce.ts for one wallet whose prisma calls all resolve.
InitLive ==
    /\ flow = "mem"
    /\ clients = {"A"}
    /\ now = 0
    /\ nextNonce = 1
    /\ nonces = << >>
    /\ sessions = << >>
    /\ cookies = {}
    /\ wallets = << >>
    /\ users = {}
    /\ nextUser = 1
    /\ pc = [p \in Procs |-> "idle"]
    /\ req = [p \in Procs |-> IdleReq]
    /\ issued = << >>
    /\ out = Response(NoAddress, 0, 0, "")
    /\ lastChallenge = << >>
    /\ secret = TRUE
    /\ proc = "up"
    /\ jwts = {}
    /\ mw = NoVerdict
    /\ adminAddresses = {}
    /\ admins = {}
    /\ adm = NoVerdict
    /\ generatedAt = << >>
    /\ entries = {}

\* The verify requests in flight.
Pending == {p \in Procs : pc[p] # "idle"}

\* The run has tokens and user ids left for one more sign-in next to the
\* ones in flight.
RoomForSignIn ==
    /\ Len(issued) + Cardinality(Pending) < MaxTokens
    /\ nextUser + Cardinality(Pending) <= MaxUsers

\* Nonce requests and verifies with right and wrong nonces and signatures;
\* the prisma calls are never rejected.
NextLive ==
    \/ Tick
    \/ \E a \in clients : MemNonce(a)
    \/ \E p \in Procs, a \in clients, n \in 0 .. (nextNonce - 1) :
          \E s \in Signatures(a, n) :
             /\ FirstIdle(p)
             /\ MemVerifyChecks(a, n, s) = "pass" => RoomForSignIn
             /\ MemVerifyStart(p, a, n, s)
    \/ \E p \in Procs : MemFindWallet(p)
    \/ \E p \in Procs : MemCreateUser(p)
    \/ \E p \in Procs : MemCreateWallet(p)

\* Every prisma call that is awaited resolves in the end.
StoreAnswers ==
    \A p \in Procs :
       /\ WF_vars(MemFindWallet(p))
       /\ WF_vars(MemCreateUser(p))
       /\ WF_vars(MemCreateWallet(p))

SpecLive == InitLive /\ [][NextLive]_vars /\ StoreAnswers

\* ============================================================ middleware/auth.ts
\* expiresIn: '7d', in the seconds that a token's iat and exp count
TOKEN_TTL_S == 7 * 24 * 3600

\* jsonwebtoken reads the clock as Math.floor(Date.now() / 1000)
NumericDate(ms) == ms \div 1000

SessionClockStep == (TOKEN_TTL_S * 1000) \div 2

\* The state of the challenge handlers.
nonceVars == <<flow, clients, nextNonce, nonces, generatedAt, sessions, cookies, wallets, users, nextUser, pc, req,
               issued, lastChallenge>>

\* The process starts.  server.ts, lines 13-23, exits when JWT_SECRET is
\* empty; routes/auth.ts and middleware/auth.ts read process.env.JWT_SECRET
\* only when a token is signed or verified, so their process comes up.
Boot ==
    /\ proc = "boot"
    /\ proc' = IF flow = "cookie" /\ ~secret THEN "exited" ELSE "up"
    /\ UNCHANGED <<nonceVars, now, out, secret, jwts, mw, adminVars, entries>>

\* The clock moves on by half a token lifetime.
SessionTick ==
    /\ now < MaxTicks * SessionClockStep
    /\ now' = now + SessionClockStep
    /\ UNCHANGED <<nonceVars, out, tokenVars>>

\* jwt.sign(payload, secret, { expiresIn: '7d' })
JwtSign(uid, address, role) ==
    Jwt(uid, address, role, NumericDate(now), NumericDate(now) + TOKEN_TTL_S, "server")

\* routes/auth.ts, isAdmin: the address is listed in ADMIN_ADDRESSES
IsAdmin(address) == address \in adminAddresses

\* routes/auth.ts, line 156: the role POST /verify puts into the token
VerifyRole(address) == IF IsAdmin(address) THEN "ADMIN" ELSE NoRole

\* issueJWT as POST /verify calls it (routes/auth.ts, lines 156-164): without
\* a secret it throws and the route answers 500.
IssueJWT(uid, address, role) ==
    /\ flow = "db"
    /\ proc = "up"
    /\ IF secret THEN
          /\ Cardinality(jwts) < MaxTokens
          /\ jwts' = jwts \cup {JwtSign(uid, address, role)}
          /\ out' = Response(address, 0, 200, "")
       ELSE
          /\ out' = Response(address, 0, 500, "verify failed")
          /\ UNCHANGED jwts
    /\ UNCHANGED <<nonceVars, now, secret, proc, mw, adminVars, entries>>

\* Mutant: the expiry of the token is not looked at.
JwtVerify_IgnoreExpiration(token) == secret /\ token.key = "server"

\* jwt.verify(token, process.env.JWT_SECRET) returns the payload: the token
\* is signed with the server's secret and its exp lies ahead.
JwtVerify(token) ==
    /\ secret
    /\ token.key = "server"
    /\ NumericDate(now) < token.exp

\* auth, lines 14-22: what the middleware does with the bearer token of a
\* request; the payload that jwt.verify returns is not looked into.
AuthVerdict(bearer) ==
    IF bearer = NoJwt THEN Verdict(NoJwt, 401, "No token", FALSE)
    ELSE IF JwtVerify(bearer) THEN Verdict(bearer, 0, "", TRUE)
    ELSE Verdict(bearer, 401, "Invalid token", FALSE)

\* auth: the token is taken from the Authorization header alone; the cookie
\* of the request is not read.
Auth(bearer, cookie) ==
    /\ flow = "db"
    /\ proc = "up"
    /\ mw' = AuthVerdict(bearer)
    /\ UNCHANGED <<nonceVars, now, out, secret, proc, jwts, adminVars, entries>>

\* A token with the claims of a minted one, signed with another secret.
Forged(token) == [token EXCEPT !.key = "other"]

\* What a request can carry as its bearer token.
BearerInputs == jwts \cup {Forged(t) : t \in jwts} \cup {NoJwt}

\* The token issuer and the middleware of a process that starts with or
\* without JWT_SECRET, next to the nonce routes the process serves.  The
\* process starts on a full second or in the middle of one.
InitSession ==
    /\ flow \in {"db", "cookie"}
    /\ clients = {"A"}
    /\ now \in {0, 500}
    /\ nextNonce = 1
    /\ nonces = << >>
    /\ sessions = << >>
    /\ cookies = {}
    /\ wallets = << >>
    /\ users = {}
    /\ nextUser = 1
    /\ pc = [p \in Procs |-> "idle"]
    /\ req = [p \in Procs |-> IdleReq]
    /\ issued = << >>
    /\ out = Response(NoAddress, 0, 0, "")
    /\ lastChallenge = << >>
    /\ secret \in BOOLEAN
    /\ proc = "boot"
    /\ jwts = {}
    /\ mw = NoVerdict
    /\ adminAddresses = {}
    /\ admins = {}
    /\ adm = NoVerdict
    /\ generatedAt = << >>
    /\ entries = {}

NextSession ==
    \/ Boot
    \/ SessionTick
    \/ \E a \in clients : IssueJWT(a, a, VerifyRole(a))
    \/ \E h \in BearerInputs, c \in jwts \cup {NoJwt} : Auth(h, c)
    \/ \E a \in clients : proc = "up" /\ DbNonceStart("r1", a)
    \/ DbNonceStore("r1")
    \/ \E a \in clients : proc = "up" /\ CookieNonce(a)

SpecSession == InitSession /\ [][NextSession]_vars

\* ------------------------------------------------- the admin gate
\* Mutant: every identity with an address counts as admin.
IsPrivileged_Anyone(user) == TRUE

\* requireAdmin, line 37: the token's role claim is ADMIN, or its address is
\* listed in ADMIN_ADDRESSES.
IsPrivileged(user) == user.role = "ADMIN" \/ user.address \in adminAddresses

\* requireAdmin, lines 30-39: the answer to a request whose req.user is user.
AdminVerdict(user) ==
    IF user.address = "" THEN Verdict(user, 401, "unauthorized", FALSE)
    ELSE IF IsPrivileged(user) THEN Verdict(user, 0, "", TRUE)
    ELSE Verdict(user, 403, "forbidden: admin only", FALSE)

\* requireAdmin: user is req.user, the payload that auth stored on the
\* request (NoJwt: req.user is undefined).
RequireAdmin(user) ==
    /\ flow = "db"
    /\ proc = "up"
    /\ adm' = AdminVerdict(user)
    /\ UNCHANGED <<nonceVars, now, out, secret, proc, jwts, mw, adminAddresses, admins, entries>>

\* req.user as the middleware after auth finds it: the payload of the token
\* that auth let through, or nothing when auth did not run before it.
UserInputs == {NoJwt} \cup (IF mw.next THEN {mw.token} ELSE {})

\* routes/admin.ts, POST /users/:id/promote, behind the admin gate:
\* prisma.user.update sets User.role to ADMIN; for an id without a row it
\* rejects and the error handler answers 500.
Promote(id) ==
    /\ flow = "db"
    /\ proc = "up"
    /\ adm.next
    /\ IF id \in users THEN
          /\ admins' = admins \cup {id}
          /\ out' = Response(id, 0, 200, "")
       ELSE
          /\ out' = Response(id, 0, 500, "update failed")
          /\ UNCHANGED admins
    /\ UNCHANGED <<nonceVars, now, secret, proc, jwts, mw, adminAddresses, adm, entries>>

\* routes/auth.ts with the admin routes mounted: ADMIN_ADDRESSES is empty or
\* lists B; A and B ask for nonces, sign in and call the admin routes.
InitAdmin ==
    /\ flow = "db"
    /\ clients = {"A", "B"}
    /\ now = 0
    /\ nextNonce = 1
    /\ nonces = << >>
    /\ sessions = << >>
    /\ cookies = {}
    /\ wallets = << >>
    /\ users = {}
    /\ nextUser = 1
    /\ pc = [p \in Procs |-> "idle"]
    /\ req = [p \in Procs |-> IdleReq]
    /\ issued = << >>
    /\ out = Response(NoAddress, 0, 0, "")
    /\ lastChallenge = << >>
    /\ secret = TRUE
    /\ proc = "up"
    /\ jwts = {}
    /\ mw = NoVerdict
    /\ adminAddresses \in {{}, {"B"}}
    /\ admins = {}
    /\ adm = NoVerdict
    /\ generatedAt = << >>
    /\ entries = {}

NextAdmin ==
    \/ \E a \in clients : DbNonceStart("r1", a)
    \/ DbNonceStore("r1")
    \/ \E a \in clients : a \in users /\ IssueJWT(a, a, VerifyRole(a))
    \/ \E h \in BearerInputs, c \in {NoJwt} : Auth(h, c)
    \/ \E u \in UserInputs : RequireAdmin(u)
    \/ \E id \in clients : Promote(id)

SpecAdmin == InitAdmin /\ [][NextAdmin]_vars

\* ============================================================ contests.public.ts
\* The Contest rows: a free contest and two paid ones, all active.
Contests == {"free", "paid1", "paid2"}
NoContest == "none"                  \* an id without a Contest row
EntryFee(contestId) == IF contestId = "free" THEN 0 ELSE 500

\* process.env.MIN_LAMPORTS_FOR_5USD and process.env.SOL_TREASURY_ADDRESS
MIN_LAMPORTS_FOR_5USD == 5
TREASURY == "T"

\* A confirmed transaction as connection.getTransaction returns it: a
\* transfer of lamports between two accounts, or one that failed on-chain.
Transfer(from, to, lamports, err) ==
    [from |-> from, to |-> to, lamports |-> lamports, err |-> err]
NoTx == Transfer("", "", 0, FALSE)
NoSignature == ""                    \* the body carries no signature

\* The chain: A has paid the fee to the treasury once, B has paid it once,
\* A has sent too little once, and one payment of A failed.
GetTransaction(signature) ==
    CASE signature = "txA"      -> Transfer("A", TREASURY, MIN_LAMPORTS_FOR_5USD, FALSE)
      [] signature = "txB"      -> Transfer("B", TREASURY, MIN_LAMPORTS_FOR_5USD, FALSE)
      [] signature = "txLow"    -> Transfer("A", TREASURY, MIN_LAMPORTS_FOR_5USD - 1, FALSE)
      [] signature = "txFailed" -> Transfer("A", TREASURY, MIN_LAMPORTS_FOR_5USD, TRUE)
      [] OTHER                  -> NoTx

\* Lines 386-394: postBalance - preBalance of the treasury's account.
ToDelta(tx) == IF tx.to = TREASURY THEN tx.lamports ELSE 0

\* Lines 401-410: the wallet is among the accounts and its balance went down
\* by the fee at least.
FromMatched(tx, address) == tx.from = address /\ tx.lamports >= MIN_LAMPORTS_FOR_5USD

\* A ContestEntry row.  paidBy is history: the transaction signature that
\* the request which created the row presented (none for a free entry).
Entry(userId, contestId, paidBy) ==
    [userId |-> userId, contestId |-> contestId, paidBy |-> paidBy]

\* prisma.contestEntry.findUnique({ userId_contestId }) finds a row
HasEntry(userId, contestId) ==
    \E e \in entries : e.userId = userId /\ e.contestId = contestId

\* POST /:id/join, lines 260-270: the error the handler answers with, or
\* "pass".
JoinChecks(user, contestId) ==
    IF user.uid = "" THEN "unauthorized"
    ELSE IF contestId \notin Contests THEN "contest not found"
    ELSE IF EntryFee(contestId) > 0 THEN "paid contest: use /join/start + /join/verify"
    ELSE "pass"

\* POST /:id/join/verify, lines 354-413: the error the handler answers
\* with, or "pass".  new PublicKey(address) throws for a text that is no
\* public key and the catch answers 500.
JoinVerifyChecks(user, contestId, signature) ==
    LET tx == GetTransaction(signature) IN
    IF user.uid = "" THEN "unauthorized"
    ELSE IF signature = NoSignature THEN "signature required"
    ELSE IF contestId \notin Contests THEN "contest not found"
    ELSE IF EntryFee(contestId) <= 0 THEN "free contest: use /join"
    ELSE IF tx = NoTx THEN "transaction not found"
    ELSE IF tx.err THEN "transaction failed on-chain"
    ELSE IF ~IsPublicKey(user.address) THEN "failed to verify checkout"
    ELSE IF ToDelta(tx) < MIN_LAMPORTS_FOR_5USD THEN "insufficient amount received"
    ELSE IF ~FromMatched(tx, user.address) THEN "sender mismatch"
    ELSE "pass"

JoinStatus(error) ==
    IF error = "unauthorized" THEN 401
    ELSE IF error = "contest not found" THEN 404
    ELSE IF error = "failed to verify checkout" THEN 500
    ELSE 400

\* Lines 274-300 and 416-430: the entry of the user for the contest is
\* returned, or created; ContestEntry.userId references User.id, so the
\* create is rejected for a uid without a User row and the catch answers
\* 500.
EnterContest(user, contestId, paidBy, error) ==
    IF error # "pass" THEN
       /\ out' = Response(user.uid, 0, JoinStatus(error), error)
       /\ UNCHANGED entries
    ELSE IF HasEntry(user.uid, contestId) THEN
       /\ out' = Response(user.uid, 0, 200, "")
       /\ UNCHANGED entries
    ELSE IF user.uid \notin users THEN
       /\ out' = Response(user.uid, 0, 500, "failed to join contest")
       /\ UNCHANGED entries
    ELSE
       /\ entries' = entries \cup {Entry(user.uid, contestId, paidBy)}
       /\ out' = Response(user.uid, 0, 201, "")

\* POST /:id/join behind auth, which has let the request through and stored
\* the token's payload in req.user.  The body carries no team.
Join(contestId) ==
    /\ proc = "up"
    /\ mw.next
    /\ EnterContest(mw.token, contestId, NoSignature, JoinChecks(mw.token, contestId))
    /\ UNCHANGED <<nonceVars, now, secret, proc, jwts, mw, adminVars>>

\* POST /:id/join/verify behind auth.
JoinVerify(contestId, signature) ==
    /\ proc = "up"
    /\ mw.next
    /\ EnterContest(mw.token, contestId, signature,
                    JoinVerifyChecks(mw.token, contestId, signature))
    /\ UNCHANGED <<nonceVars, now, secret, proc, jwts, mw, adminVars>>

\* The transaction signatures a request presents: the payments on the
\* chain, a signature the chain does not know, or none.
TxInputs == {"txA", "txB", "txLow", "txFailed", "txUnknown", NoSignature}

\* routes/auth.ts with the contest routes mounted: A and B ask for nonces
\* (which creates their User rows), sign in and enter contests.
InitContest ==
    /\ flow = "db"
    /\ clients = {"A", "B"}
    /\ now = 0
    /\ nextNonce = 1
    /\ nonces = << >>
    /\ sessions = << >>
    /\ cookies = {}
    /\ wallets = << >>
    /\ users = {}
    /\ nextUser = 1
    /\ pc = [p \in Procs |-> "idle"]
    /\ req = [p \in Procs |-> IdleReq]
    /\ issued = << >>
    /\ out = Response(NoAddress, 0, 0, "")
    /\ lastChallenge = << >>
    /\ secret = TRUE
    /\ proc = "up"
    /\ jwts = {}
    /\ mw = NoVerdict
    /\ adminAddresses = {}
    /\ admins = {}
    /\ adm = NoVerdict
    /\ generatedAt = << >>
    /\ entries = {}

NextContest ==
    \/ \E a \in clients : DbNonceStart("r1", a)
    \/ DbNonceStore("r1")
    \/ \E a \in clients : a \in users /\ IssueJWT(a, a, VerifyRole(a))
    \/ \E h \in jwts \cup {NoJwt} : Auth(h, NoJwt)
    \/ \E c \in Contests \cup {NoContest} : Join(c)
    \/ \E c \in Contests \cup {NoContest}, s \in TxInputs : JoinVerify(c, s)

SpecContest == InitContest /\ [][NextContest]_vars

\* ============================================================ the tokens and their consumers
\* A claim of a token's payload by its name; undefined ("") when the
\* payload has no claim of that name.
Claim(payload, name) == IF name \in DOMAIN payload THEN payload[name] ELSE ""

\* The payload that the verify handler of the flow signs into the session
\* token tok: auth-nonce.ts, line 114; routes/auth.ts, lines 156-157;
\* server.ts, line 245 (wid: a second fresh id).
SessionPayload(tok) ==
    CASE flow = "mem"    -> [sub |-> tok.sub, addr |-> tok.addr]
      [] flow = "db"     -> [uid |-> tok.addr, address |-> tok.addr,
                             role |-> VerifyRole(tok.addr)]
      [] flow = "cookie" -> [sub |-> tok.sub, wid |-> tok.sub + MaxUsers, t |-> "auth"]

\* expiresIn of the flow's session token, in seconds: "7d", '7d', "30d"
SessionTtlS == IF flow = "cookie" THEN 30 * 24 * 3600 ELSE TOKEN_TTL_S

\* signNonceCookie, line 135: the payload of the nonce cookie's token
ChallengePayload(c) == [t |-> "nonce", wallet |-> c.wallet, nonce |-> c.nonce, msg |-> c.msg]

\* jwt.verify(token, secret) as JWTPayload: the consumers of req.user read
\* uid, address and role off the payload, whatever claims it was signed
\* with.  at: the time (ms) the token was signed, ttl: its expiresIn.
AsJWTPayload(payload, at, ttl) ==
    Jwt(Claim(payload, "uid"), Claim(payload, "address"), Claim(payload, "role"),
        NumericDate(at), NumericDate(at) + ttl, "server")

\* The clock readings at which a token at hand can have been signed.
SignedAt == {k * ClockStep : k \in 0 .. MaxTicks} \cap (0 .. now)

\* The session tokens handed out, as a request carries them in
\* Authorization: Bearer.
SessionBearers ==
    {AsJWTPayload(SessionPayload(issued[i]), at, SessionTtlS) :
        i \in 1 .. Len(issued), at \in SignedAt}

\* The token of nonce cookie c, carried in Authorization: Bearer.
ChallengeAsBearer(c) ==
    AsJWTPayload(ChallengePayload(c), c.exp - COOKIE_TTL_MS, COOKIE_TTL_MS \div 1000)

\* auth in the API process, which signs and verifies with the JWT_SECRET
\* that the flow's handlers sign with.
SharedAuth(bearer) ==
    /\ proc = "up"
    /\ mw' = AuthVerdict(bearer)
    /\ UNCHANGED <<nonceVars, now, out, secret, proc, jwts, adminVars, entries>>

\* requireAdmin behind auth in that process.
SharedRequireAdmin ==
    /\ proc = "up"
    /\ mw.next
    /\ adm' = AdminVerdict(mw.token)
    /\ UNCHANGED <<nonceVars, now, out, secret, proc, jwts, mw, adminAddresses, admins, entries>>

\* server.ts, POST /auth/verify, handed in its nonce cookie a token with
\* this payload that was signed at `at` for ttl seconds.  Lines 196, 206-213:
\* a token that jwt.verify lets through is turned away unless its t is
\* "nonce"; one that it throws on is ignored and the body's message is used.
CookieVerifyToken(walletAddress, payload, at, ttl, bodyMessage, sigB64, sig58) ==
    IF /\ walletAddress # NoAddress
       /\ JwtVerify(AsJWTPayload(payload, at, ttl))
       /\ Claim(payload, "t") # "nonce"
    THEN
       /\ flow = "cookie"
       /\ out' = Response(walletAddress, 0, 400, "Bad nonce payload")
       /\ UNCHANGED <<tokenVars, flow, clients, now, nextNonce, nonces, generatedAt, sessions,
                      cookies, wallets, users, nextUser, pc, req, issued, lastChallenge>>
    ELSE CookieVerify(walletAddress, NoCookie, bodyMessage, sigB64, sig58)

\* One of the three verify handlers signs a wallet in, and the wallet
\* presents the tokens it was handed to the API's middleware and routes and
\* to server.ts's verify, all within the lifetime of a challenge.
InitTokens ==
    /\ flow \in {"mem", "db", "cookie"}
    /\ clients = {"A"}
    /\ now = 0
    /\ nextNonce = 1
    /\ nonces = << >>
    /\ sessions = << >>
    /\ cookies = {}
    /\ wallets = << >>
    /\ users = {}
    /\ nextUser = 1
    /\ pc = [p \in Procs |-> "idle"]
    /\ req = [p \in Procs |-> IdleReq]
    /\ issued = << >>
    /\ out = Response(NoAddress, 0, 0, "")
    /\ lastChallenge = << >>
    /\ secret = TRUE
    /\ proc = "up"
    /\ jwts = {}
    /\ mw = NoVerdict
    /\ adminAddresses \in {{}, {"A"}}
    /\ admins = {}
    /\ adm = NoVerdict
    /\ generatedAt = << >>
    /\ entries = {}

NextTokens ==
    \/ \E a \in clients : MemNonce(a)
    \/ \E a \in clients, n \in 1 .. (nextNonce - 1) : MemVerifyStart("r1", a, n, Sign(a, n))
    \/ MemFindWallet("r1")
    \/ MemCreateUser("r1")
    \/ MemCreateWallet("r1")
    \/ \E a \in clients : DbNonceStart("r1", a)
    \/ DbNonceStore("r1")
    \/ \E a \in clients, n \in 1 .. (nextNonce - 1) :
          DbVerifyLookup("r1", a, n, Sign(a, n), NoSig)
    \/ DbVerifyFinish("r1", TRUE)
    \/ \E a \in clients : CookieNonce(a)
    \/ \E a \in clients, c \in cookies : CookieVerify(a, c, NoMessage, Sign(a, c.msg), NoSig)
    \/ \E a \in clients, i \in 1 .. Len(issued), at \in SignedAt, c \in cookies :
          CookieVerifyToken(a, SessionPayload(issued[i]), at, SessionTtlS,
                            NoMessage, Sign(a, c.msg), NoSig)
    \/ \E b \in SessionBearers \cup {ChallengeAsBearer(c) : c \in cookies} \cup {NoJwt} :
          SharedAuth(b)
    \/ SharedRequireAdmin
    \/ \E c \in {"free", "paid1"} : Join(c)

SpecTokens == InitTokens /\ [][NextTokens]_vars

\* ============================================================ properties
VerifyPcs == {"findWallet", "createUser", "createWallet", "deleteSession"}

\* A token has been issued for the challenge (address, nonce).
TokenFor(address, nonce) ==
    \E i \in 1 .. Len(issued) : issued[i].addr = address /\ issued[i].nonce = nonce

\* Request p answers with a token in this step.
ReturnsToken(p) ==
    pc[p] \in VerifyPcs /\ pc'[p] = "idle" /\ Len(issued') = Len(issued) + 1

NotFound == "Nonce not found. Get a new nonce."
Expired  == "Nonce expired. Get a new nonce."

\* C1: auth-nonce.ts: a POST /auth/verify for a nonce that a token was
\* already issued for never gets past the nonce checks and issues nothing;
\* with no POST /auth/nonce for the address since that success it answers
\* 400 'Nonce not found'.
C1_SecondVerifyNotFound ==
    [][(flow = "mem" /\ issued # <<>>) =>
          \A p \in Procs : FirstIdle(p) =>
             \A a \in AddrInputs, n \in 0 .. (nextNonce - 1) : TokenFor(a, n) =>
                \A s \in Signatures(a, n) : MemVerifyStart(p, a, n, s) =>
                   /\ pc'[p] = "idle"
                   /\ issued' = issued
                   /\ (a \notin DOMAIN lastChallenge
                         => out' = Response(a, n, 400, NotFound))]_vars

\* C1 witness: a token was issued for a nonce, and the last response is the
\* 'Nonce not found' answer to a verify of that same nonce.
C1_Witness ==
    /\ flow = "mem"
    /\ out.error = NotFound
    /\ TokenFor(out.address, out.nonce)

\* C2: when a verify request returns a token, no other verify request that
\* has passed the nonce lookup for the same challenge is in flight (the other
\* one must have observed the nonce as gone).
C2_AtMostOneInFlightSucceeds ==
    [][\A p \in Procs : ReturnsToken(p) =>
          \A q \in Procs \ {p} :
             ~(/\ pc[q] \in VerifyPcs
               /\ req[q].address = req[p].address
               /\ req[q].nonce = req[p].nonce)]_vars

C4_TokenOnlyForLiveChallenge ==
    [][(flow = "cookie" /\ Len(issued') = Len(issued) + 1) =>
          \E c \in cookies :
             /\ c.wallet = issued'[Len(issued')].addr
             /\ c.msg = issued'[Len(issued')].nonce
             /\ now <= c.exp]_vars

\* C5: server.ts: a verify that presents a valid nonce cookie whose challenge
\* a token was already issued for returns no second token.
C5_CookieChallengeVerifiedOnce ==
    [][\A a \in AddrInputs, c \in cookies : \A b \in {NoMessage, 0, c.msg} :
          \A sigs \in SignaturePairs(a, c.msg) :
             (/\ CookieVerify(a, c, b, sigs[1], sigs[2])
              /\ JwtVerifyCookie(c)
              /\ TokenFor(a, c.msg))
             => issued' = issued]_vars

\* C6: auth-nonce.ts: a POST /auth/nonce made while the challenge that the
\* previous POST /auth/nonce returned is within its TTL, with no successful
\* verify in between, returns the same nonce.
C6_NonceReusedWithinTtl ==
    [][\A a \in AddrInputs :
          (/\ MemNonce(a)
           /\ a \in DOMAIN lastChallenge
           /\ now < lastChallenge[a].expiresAt)
          => /\ out' = Response(a, lastChallenge[a].nonce, 200, "")
             /\ lastChallenge'[a].nonce = lastChallenge[a].nonce]_vars

\* C6 witness: the last nonce response handed out a challenge at a later
\* time than the challenge was generated: a second call reused it.
C6_Witness ==
    /\ flow = "mem"
    /\ "A" \in DOMAIN lastChallenge
    /\ lastChallenge["A"].at + NONCE_TTL_MS > lastChallenge["A"].expiresAt
    /\ out = Response("A", lastChallenge["A"].nonce, 200, "")

\* C7: routes/auth.ts: a nonce request that finds a live stored challenge
\* returns its nonce and leaves it stored.
C7_DbNonceIdempotent ==
    [][\A p \in Procs :
          (/\ DbNonceStore(p)
           /\ req[p].address \in DOMAIN sessions
           /\ now < sessions[req[p].address].expiresAt)
          => /\ out'.nonce = sessions[req[p].address].nonce
             /\ sessions' = sessions]_vars

\* C8: auth-nonce.ts: a verify that finds a challenge older than its TTL
\* answers 400 'Nonce expired' and issues nothing, whatever nonce and
\* signature it carries.
C8_ExpiredChallengeRejected ==
    [][flow = "mem" =>
          \A a \in AddrInputs : (a \in DOMAIN nonces /\ now > nonces[a].expiresAt) =>
             \A p \in Procs : FirstIdle(p) =>
                \A n \in 0 .. (nextNonce - 1) : \A s \in Signatures(a, n) :
                   MemVerifyStart(p, a, n, s) =>
                      /\ out' = Response(a, n, 400, Expired)
                      /\ pc'[p] = "idle"
                      /\ issued' = issued]_vars

\* C8 witness: an issued nonce was answered with 'Nonce expired'.
C8_Witness ==
    /\ flow = "mem"
    /\ out.error = Expired
    /\ out.nonce # 0

\* C9: a verify at any time now >= expiresAt answers 'Nonce expired' and
\* drops the record.
C9_ExpiredFromExpiresAtOn ==
    [][flow = "mem" =>
          \A a \in AddrInputs : (a \in DOMAIN nonces /\ now >= nonces[a].expiresAt) =>
             \A p \in Procs : FirstIdle(p) =>
                \A n \in 0 .. (nextNonce - 1) : \A s \in Signatures(a, n) :
                   MemVerifyStart(p, a, n, s) =>
                      /\ out' = Response(a, n, 400, Expired)
                      /\ a \notin DOMAIN nonces']_vars

\* C10: auth-nonce.ts: a verify whose nonce differs from the stored, unexpired
\* one answers 400 'Nonce mismatch' and changes nothing; while that answer is
\* the last response, a verify with the stored nonce and the wallet's
\* signature passes the checks unless the challenge has expired.
C10_MismatchLeavesChallenge ==
    [][flow = "mem" =>
          \A a \in AddrInputs : (a \in DOMAIN nonces /\ nonces[a].expiresAt >= now) =>
             \A p \in Procs : FirstIdle(p) =>
                /\ \A n \in (0 .. (nextNonce - 1)) \ {nonces[a].nonce} :
                      \A s \in Signatures(a, n) : MemVerifyStart(p, a, n, s) =>
                         /\ out' = Response(a, n, 400, "Nonce mismatch")
                         /\ nonces' = nonces
                         /\ issued' = issued
                         /\ pc' = pc
                /\ LET stored == nonces[a].nonce IN
                   (/\ out.error = "Nonce mismatch"
                    /\ out.address = a
                    /\ MemVerifyStart(p, a, stored, Sign(a, stored)))
                   => pc'[p] = "findWallet"]_vars

\* C10 witness: with 'Nonce mismatch' as the last response, a verify of the
\* stored nonce has passed the checks.
C10_Witness ==
    \E p \in Procs :
       /\ out.error = "Nonce mismatch"
       /\ pc[p] = "findWallet"
       /\ req[p].address = out.address
       /\ out.address \in DOMAIN nonces
       /\ nonces[out.address].nonce = req[p].nonce

\* C11: auth-nonce.ts: a POST /auth/nonce whose address is missing or is no
\* public key is answered with status 400 and leaves the nonce Map as it
\* was: no challenge exists for that address.
C11_InvalidAddressRejected ==
    [][flow = "mem" =>
          \A a \in AddrInputs \ Addr : MemNonce(a) =>
             /\ out'.status = 400
             /\ out'.address = a
             /\ nonces' = nonces
             /\ a \notin DOMAIN nonces']_vars

\* C11 witness: a nonce request for a string that is no public key was
\* answered 400 and the Map holds nothing for it.
C11_Witness ==
    /\ flow = "mem"
    /\ out = Response(BadAddress, 0, 400, "Invalid walletAddress")
    /\ BadAddress \notin DOMAIN nonces

\* C12 (as claimed): routes/auth.ts and server.ts store or issue nothing for
\* an address that is no well-formed public key: no Session row, no User row,
\* no nonce cookie.
C12_MalformedAddressStoresNothing ==
    /\ flow = "db" => (DOMAIN sessions \subseteq Addr /\ users \subseteq Addr)
    /\ flow = "cookie" => \A c \in cookies : c.wallet \in Addr

\* The nonces that a verify for the address, signed by the wallet, would get
\* past the checks with in this state.
LiveNonces(a) ==
    {n \in NonceVals :
        IF flow = "mem" THEN MemVerifyChecks(a, n, Sign(a, n)) = "pass"
        ELSE DbVerifyChecks(a, n, Sign(a, n), NoSig) = "pass"}

\* The nonce the store holds for the address.
StoredNonce(a) ==
    IF flow = "mem" THEN (IF a \in DOMAIN nonces THEN {nonces[a].nonce} ELSE {})
    ELSE (IF a \in DOMAIN sessions THEN {sessions[a].nonce} ELSE {})

\* C13: auth-nonce.ts and routes/auth.ts: in every reachable state an address
\* has at most one nonce that a verify would accept, and it is the one the
\* store holds: a nonce that a re-issue replaced is not accepted any more.
C13_AtMostOneLiveChallenge ==
    flow \in {"mem", "db"} =>
       \A a \in Addr :
          /\ Cardinality(LiveNonces(a)) <= 1
          /\ LiveNonces(a) \subseteq StoredNonce(a)

\* C13 witness: the second nonce issued for the address replaced the first,
\* is the only live one, and a verify of the first was answered
\* 'Nonce mismatch'.
C13_Witness ==
    /\ flow = "mem"
    /\ "A" \in DOMAIN nonces
    /\ nonces["A"].nonce = 2
    /\ LiveNonces("A") = {2}
    /\ out = Response("A", 1, 400, "Nonce mismatch")

\* C18 (as claimed): in each of the three verify handlers a response that
\* reports a signature that does not verify has status 401.
C18_InvalidSignatureIs401 ==
    out.error \in {"Invalid signature", "invalid signature"} => out.status = 401

\* C19 (as claimed): routes/auth.ts POST /verify reports the lookup failures
\* with distinct reasons, the expiry being looked at before the nonce value:
\* an expired record yields a reason other than the one for no record, also
\* when the supplied nonce differs, and an unexpired record with another
\* nonce yields a third reason.
C19_DistinctLookupReasons ==
    (flow = "db" /\ "A" \in DOMAIN sessions /\ "B" \notin DOMAIN sessions) =>
       \A n \in 1 .. MaxNonces :
          LET notFound == DbVerifyChecks("B", n, Sign("B", n), NoSig)
              other    == DbVerifyChecks("A", n, Sign("A", n), NoSig)
              expired  == DbVerifyChecks("A", sessions["A"].nonce,
                                         Sign("A", sessions["A"].nonce), NoSig)
          IN  IF sessions["A"].expiresAt < now
              THEN expired # notFound /\ other = expired
              ELSE n # sessions["A"].nonce => other # notFound

\* C17 (as claimed): server.ts POST /auth/verify: a signature that does not
\* decode to exactly 64 bytes is answered by a check that comes before the
\* detached verification (at the latest by the length check) and never
\* reaches the verifier.
C17_WrongLengthNeverVerified ==
    [][flow = "cookie" =>
          \A a \in AddrInputs, c \in cookies \cup {NoCookie} :
             \A b \in {NoMessage, 0, c.msg}, sigs \in SizedPairs(a, c.msg) :
                CookieVerify(a, c, b, sigs[1], sigs[2]) =>
                   out'.error \in {"walletAddress is required", "Wallet mismatch with nonce",
                                   "Missing nonce message", "Signature length invalid",
                                   "walletAddress must be base58"}]_vars

\* The step serves a request made for the address: the request arrives, or
\* one of the awaits of its handler resolves.
StepFor(a) ==
    \/ MemNonce(a)
    \/ \E p \in Procs, n \in 0 .. (nextNonce - 1) :
          \E s \in Signatures(a, n) : MemVerifyStart(p, a, n, s)
    \/ \E p \in Procs :
          /\ req[p].address = a
          /\ MemFindWallet(p) \/ MemCreateUser(p) \/ MemCreateWallet(p) \/ MemDbError(p)

\* What the handlers read of the store for the address.
RecordOf(b) == IF b \in DOMAIN nonces THEN {nonces[b]} ELSE {}

\* What a nonce request and a verify for the address would do in this
\* state: whether the nonce request reuses the record, the wallet row the
\* verify would find, and the outcome of the verify checks for every nonce
\* signed by the wallet.
OutcomesOf(b) ==
    <<RecordOf(b), MemIssueReuses(b), FindFirstWallet(b),
      [n \in NonceVals |-> MemVerifyChecks(b, n, Sign(b, n))]>>

\* C14: auth-nonce.ts: the challenge record of an address, and with it what
\* the handlers would answer to a request for that address, changes only in
\* a step that serves a request for that same address (or, for the expiry,
\* when the clock advances): requests for another address leave them alone.
\* (The answers are computed from the Map, the wallet rows and the clock.)
C14_AddressesIndependent ==
    [][(now' = now /\ <<nonces, wallets>>' # <<nonces, wallets>>) =>
          \A b \in Addr :
             OutcomesOf(b)' # OutcomesOf(b) =>
                /\ StepFor(b)
                /\ \A a \in Addr \ {b} : RecordOf(a)' = RecordOf(a)]_vars

\* C14 witness: B was given nonce 1, then A was given nonce 2 and signed
\* in with it; B's challenge is still stored.
C14_Witness ==
    /\ flow = "mem"
    /\ out = Response("A", 2, 200, "")
    /\ TokenFor("A", 2)
    /\ "A" \notin DOMAIN nonces
    /\ "B" \in DOMAIN nonces
    /\ nonces["B"].nonce = 1

\* C15: middleware/auth.ts: every token that issueJWT minted expires 7 days
\* after its issue time; presented as bearer token it is let through by auth
\* at every time before its exp and answered 401 from its exp on, and a token
\* signed with another secret is answered 401 at every time.
C15_TokenValidUntilExpiry ==
    [][\A h \in BearerInputs \ {NoJwt} :
          (\E c \in jwts \cup {NoJwt} : Auth(h, c)) =>
             /\ h \in jwts => h.exp = h.iat + 7 * 24 * 3600
             /\ (h \in jwts /\ now < h.exp * 1000) => mw' = Verdict(h, 0, "", TRUE)
             /\ (h \in jwts /\ now >= h.exp * 1000) => (mw'.status = 401 /\ ~mw'.next)
             /\ h.key # "server" => (mw'.status = 401 /\ ~mw'.next)]_vars

\* C15 witness: auth has just answered 401 to a minted token presented at
\* the very second of its exp.
C15_Witness ==
    /\ mw.token \in jwts
    /\ mw.status = 401
    /\ ~mw.next
    /\ NumericDate(now) = mw.token.exp

\* C16 (as claimed): without JWT_SECRET the process serves no challenge
\* request: none has been answered with a nonce, none is in flight and no
\* challenge has been stored or handed out.
C16_NoServiceWithoutSecret ==
    ~secret =>
       /\ out.status # 200
       /\ \A p \in Procs : pc[p] = "idle"
       /\ sessions = << >>
       /\ cookies = {}

\* C20 (as claimed): auth lets a request through that carries an unexpired
\* session token as its 'auth' cookie and no Authorization header.
C20_CookieTokenAccepted ==
    [][\A c \in jwts :
          (Auth(NoJwt, c) /\ now < c.exp * 1000) => mw'.next]_vars

\* C21: requireAdmin calls next() exactly for a request whose req.user has
\* an address and admin privilege (role claim ADMIN, or the address listed
\* in ADMIN_ADDRESSES), and then the identity is one that auth verified; it
\* answers 401 to a request without an authenticated address and 403 to
\* every authenticated identity without admin privilege, without calling
\* next().
C21_AdminGate ==
    [][\A u \in UserInputs : RequireAdmin(u) =>
          LET privileged == u.role = "ADMIN" \/ u.address \in adminAddresses IN
          /\ adm'.next <=> (u.address # "" /\ privileged)
          /\ adm'.next => (u \in jwts /\ mw = Verdict(u, 0, "", TRUE))
          /\ u.address = "" => (adm'.status = 401 /\ ~adm'.next)
          /\ (u.address # "" /\ ~privileged) => (adm'.status = 403 /\ ~adm'.next)]_vars

\* C21 witness: requireAdmin has answered 403 to the token of a signed-in
\* wallet that is no admin, in a process whose ADMIN_ADDRESSES lists another
\* wallet.
C21_Witness ==
    /\ adm.status = 403
    /\ ~adm.next
    /\ adm.token \in jwts
    /\ adm.token.role # "ADMIN"
    /\ adminAddresses = {"B"}

\* C22 (as claimed): server.ts: the tokens that successive successful
\* sign-ins of one address receive carry the same subject id.
C22_SubjectIdStable ==
    flow = "cookie" =>
       \A i, j \in 1 .. Len(issued) :
          issued[i].addr = issued[j].addr => issued[i].sub = issued[j].sub

\* C23 (as claimed): routes/auth.ts: the token that POST /verify issues to a
\* user whose stored role is ADMIN carries the role claim ADMIN.
C23_PromotedUserGetsAdminRole ==
    [][\A a \in clients :
          (a \in admins /\ IssueJWT(a, a, VerifyRole(a))) =>
             \E t \in jwts' :
                t.address = a /\ t.iat = NumericDate(now) /\ t.role = "ADMIN"]_vars

\* C24 (as claimed): auth-nonce.ts POST /auth/verify: the answer to a
\* request whose identity-store call was rejected has status 500.
C24_StoreFailureIs500 ==
    (flow = "mem" /\ out.error = "prisma error") => out.status = 500

\* The store with another nonce value in the record of the address.
WithNonce(store, a, m) == [store EXCEPT ![a].nonce = m]

\* The answer of auth-nonce.ts POST /auth/verify to a request that fails the
\* checks, computed against a given Map.
MemFailureResponse(store, a, n, sig) ==
    LET r == MemVerifyChecksIn(store, a, n, sig) IN Response(a, n, MemVerifyStatus(r), r)

\* The answer of routes/auth.ts POST /verify to a request that fails the
\* checks, computed against given Session rows.
DbFailureResponse(store, a, n, sigB64, sig58) ==
    Response(a, n, 400, DbVerifyChecksIn(store, a, n, sigB64, sig58))

\* C25: auth-nonce.ts and routes/auth.ts: for the store of every reachable
\* state and the store that differs from it only in the nonce value held for
\* an address, a verify whose nonce matches neither value is answered with
\* the same status and the same body: the answer does not depend on the
\* stored nonce.
C25_FailureHidesStoredNonce ==
    /\ flow = "mem" =>
          \A a \in DOMAIN nonces, m \in NonceVals :
             \A n \in NonceVals \ {nonces[a].nonce, m} : \A sig \in Signatures(a, n) :
                MemFailureResponse(WithNonce(nonces, a, m), a, n, sig)
                   = MemFailureResponse(nonces, a, n, sig)
    /\ flow = "db" =>
          \A a \in DOMAIN sessions, m \in NonceVals :
             \A n \in NonceVals \ {sessions[a].nonce, m} : \A sigs \in SignaturePairs(a, n) :
                DbFailureResponse(WithNonce(sessions, a, m), a, n, sigs[1], sigs[2])
                   = DbFailureResponse(sessions, a, n, sigs[1], sigs[2])

\* C25 witness: with nonce 2 stored and unexpired for A, a verify with a
\* nonce the server never issued was answered 'Nonce mismatch'.
C25_Witness ==
    /\ flow = "mem"
    /\ "A" \in DOMAIN nonces
    /\ nonces["A"].nonce = 2
    /\ nonces["A"].expiresAt >= now
    /\ out = MemFailureResponse(nonces, "A", 0, Sign("A", 0))
    /\ out.error = "Nonce mismatch"

\* The signature field holds a valid signature of the message by the wallet.
ValidSignature(a, msg, sig) == sig.len = SIGNATURE_BYTES /\ DetachedVerify(msg, sig, a)

\* C26 (as claimed): routes/auth.ts POST /verify and server.ts POST
\* /auth/verify: a request that carries both a base-64 and a base-58
\* signature, at least one of them a valid signature of the live challenge,
\* gets past the signature check.
C26_EitherSignatureSuffices ==
    [][/\ flow = "db" =>
             \A a \in DOMAIN sessions \cap Addr : sessions[a].expiresAt >= now =>
                \A p \in {"r1"} :
                   LET n == sessions[a].nonce IN
                   \A sigs \in SignaturePairs(a, n) \cup FallbackPairs(a, n) :
                      (/\ sigs[1] # NoSig
                       /\ sigs[2] # NoSig
                       /\ ValidSignature(a, n, sigs[1]) \/ ValidSignature(a, n, sigs[2])
                       /\ DbVerifyLookup(p, a, n, sigs[1], sigs[2]))
                      => pc'[p] = "deleteSession"
       /\ flow = "cookie" =>
             \A c \in cookies : (JwtVerifyCookie(c) /\ c.wallet \in Addr) =>
                \A sigs \in FieldPairs(c.wallet, c.msg, NoMessage) :
                   (/\ sigs[1] # NoSig
                    /\ sigs[2] # NoSig
                    /\ ValidSignature(c.wallet, c.msg, sigs[1])
                          \/ ValidSignature(c.wallet, c.msg, sigs[2])
                    /\ CookieVerify(c.wallet, c, NoMessage, sigs[1], sigs[2]))
                   => out'.status = 200]_vars

\* C27: auth-nonce.ts, the identity store answering: a POST /auth/nonce for
\* a wallet always returns a nonce that is stored and unexpired, whatever
\* happened before (no challenge, an expired one, failed verifies); a POST
\* /auth/verify with the nonce of the last nonce response and the wallet's
\* signature, made up to its expiry, passes the checks; and every verify that
\* passed the checks ends in a token for its challenge.
C27_FreshChallengeSucceeds ==
    /\ [][\A a \in clients : MemNonce(a) =>
             /\ out' = Response(a, out'.nonce, 200, "")
             /\ a \in DOMAIN nonces'
             /\ nonces'[a].nonce = out'.nonce
             /\ nonces'[a].expiresAt > now]_vars
    /\ [][\A a \in DOMAIN lastChallenge : now <= lastChallenge[a].expiresAt =>
             \A p \in Procs : FirstIdle(p) =>
                LET n == lastChallenge[a].nonce IN
                MemVerifyStart(p, a, n, Sign(a, n)) =>
                   (pc'[p] = "findWallet" /\ req'[p] = InFlight(a, n, 0, 0))]_vars
    /\ \A p \in Procs, a \in Addr, n \in 1 .. MaxNonces :
          (pc[p] = "findWallet" /\ req[p].address = a /\ req[p].nonce = n)
             ~> TokenFor(a, n)

\* C27 witness: the wallet signed in with its second nonce after the first
\* one, for which no token was issued, had expired.
C27_Witness ==
    /\ flow = "mem"
    /\ TokenFor("A", 2)
    /\ ~TokenFor("A", 1)
    /\ now > NONCE_TTL_MS
    /\ out = Response("A", 2, 200, "")

\* C28: auth-nonce.ts: a POST /auth/nonce that finds an unexpired record
\* answers with its nonce and leaves the Map as it is; every record of the
\* Map expires 5 minutes after its nonce was generated, before and after
\* every step; and a verify passes the nonce checks only up to 5 minutes
\* after the nonce it carries was generated.
C28_ReuseKeepsExpiry ==
    [][flow = "mem" =>
          /\ \A a \in DOMAIN nonces : nonces[a].expiresAt = generatedAt[a] + 5 * 60 * 1000
          /\ \A a \in DOMAIN nonces' : nonces'[a].expiresAt = generatedAt'[a] + 5 * 60 * 1000
          /\ \A a \in DOMAIN nonces : (nonces[a].expiresAt > now /\ MemNonce(a)) =>
                /\ nonces' = nonces
                /\ out' = Response(a, nonces[a].nonce, 200, "")
          /\ \A p \in Procs : (pc[p] = "idle" /\ pc'[p] = "findWallet") =>
                /\ req'[p].address \in DOMAIN generatedAt
                /\ nonces[req'[p].address].nonce = req'[p].nonce
                /\ now <= generatedAt[req'[p].address] + 5 * 60 * 1000]_vars

\* C28 witness: the nonce generated at time 0 was handed out again by a
\* later POST /auth/nonce, and the record still expires 5 minutes after
\* time 0.
C28_Witness ==
    /\ flow = "mem"
    /\ "A" \in DOMAIN nonces
    /\ "A" \in DOMAIN lastChallenge
    /\ generatedAt["A"] = 0
    /\ lastChallenge["A"].at > 0
    /\ lastChallenge["A"].nonce = nonces["A"].nonce
    /\ nonces["A"].expiresAt = NONCE_TTL_MS

\* C29: server.ts POST /auth/verify with a nonce cookie that validates: a
\* cookie issued for another wallet than the submitted address is answered
\* 400 'Wallet mismatch with nonce' without a token; otherwise the outcome is
\* the one of the same request without a body message, a token is only
\* issued for the cookie's message and a signature of it, and the wallet's
\* signature of a different body message is answered 401.
C29_CookieMessageWins ==
    [][flow = "cookie" =>
          \A c \in cookies : JwtVerifyCookie(c) =>
             \A a \in {out'.address} \cap Addr, b \in BodyMessages(c) :
                \A sigs \in FieldPairs(a, c.msg, b) :
                CookieVerify(a, c, b, sigs[1], sigs[2]) =>
                   IF c.wallet # a
                   THEN /\ out' = Response(a, 0, 400, "Wallet mismatch with nonce")
                        /\ issued' = issued
                   ELSE /\ CookieVerifyMessage(a, c, b) = c.msg
                        /\ CookieVerifyChecks(a, c, b, sigs[1], sigs[2])
                              = CookieVerifyChecks(a, c, NoMessage, sigs[1], sigs[2])
                        /\ issued' # issued =>
                              /\ issued'[Len(issued')].nonce = c.msg
                              /\ ValidSignature(a, c.msg, sigs[1])
                        /\ (b # c.msg /\ sigs = <<Sign(a, b), NoSig>>) =>
                              (out'.status = 401 /\ issued' = issued)]_vars

\* C29 witness: wallet B presented the unexpired nonce cookie of wallet A
\* and was answered 'Wallet mismatch with nonce'; no token exists.
C29_Witness ==
    /\ flow = "cookie"
    /\ out = Response("B", 0, 400, "Wallet mismatch with nonce")
    /\ \E c \in cookies : c.wallet = "A" /\ JwtVerifyCookie(c)
    /\ issued = << >>

\* C30 (as claimed): routes/auth.ts: a POST /verify that completes while the
\* Session row of its address holds another nonce than the one it verified
\* (a nonce request came in between its lookup and its delete) leaves that
\* row stored.
C30_ConsumeOnlyVerified ==
    [][flow = "db" =>
          \A p \in Procs :
             (/\ pc[p] = "deleteSession"
              /\ pc'[p] = "idle"
              /\ req[p].address \in DOMAIN sessions
              /\ sessions[req[p].address].nonce # req[p].nonce)
             => (/\ req[p].address \in DOMAIN sessions'
                 /\ sessions'[req[p].address] = sessions[req[p].address])]_vars

\* The Wallet rows of an address.
WalletsOf(a) == {i \in 1 .. Len(wallets) : wallets[i].address = a}

\* C31 (as claimed): auth-nonce.ts: whatever way the verify requests of an
\* address interleave, the identity store holds at most one Wallet row for
\* the address.
C31_OneWalletPerAddress ==
    flow = "mem" => \A a \in Addr : Cardinality(WalletsOf(a)) <= 1

\* C32 (as claimed): routes/auth.ts: the nonce that a token was issued for
\* is not stored any more, also when the delete of its Session row was
\* rejected.
C32_TokenImpliesNonceGone ==
    flow = "db" =>
       \A i \in 1 .. Len(issued) :
          ~(/\ issued[i].addr \in DOMAIN sessions
            /\ sessions[issued[i].addr].nonce = issued[i].nonce)

\* The ContestEntry rows that requests presenting the signature created.
PaidBy(signature) == {e \in entries : e.paidBy = signature}

\* C35 (as claimed): contests.public.ts: one payment transaction admits at
\* most one contest entry: no two ContestEntry rows were created by join/verify
\* requests that presented the same transaction signature.
C35_OneEntryPerPayment ==
    \A s \in TxInputs \ {NoSignature} : Cardinality(PaidBy(s)) <= 1

\* C33 (as claimed): tokens signed with the shared secret are accepted only
\* in the role they were minted for: the auth middleware does not let a
\* request through whose bearer token is the token of a nonce cookie, and
\* server.ts's verify answers 400 and issues nothing when its nonce cookie
\* holds a session token.
C33_TokensKeepTheirRole ==
    [][(mw' # mw \/ out' # out) =>
         /\ \A c \in cookies : SharedAuth(ChallengeAsBearer(c)) => ~mw'.next
         /\ \A a \in clients, i \in 1 .. Len(issued), at \in SignedAt, c \in cookies :
               CookieVerifyToken(a, SessionPayload(issued[i]), at, SessionTtlS,
                                 NoMessage, Sign(a, c.msg), NoSig)
                  => (out'.status = 400 /\ issued' = issued)]_vars

\* C34 (as claimed): the session token of each verify handler carries the
\* claims its consumers read: a request that auth let through with such a
\* token is not answered 401 by the contest join route (the uid check) nor
\* by requireAdmin (the address check).
C34_SessionTokenPassesConsumers ==
    [][(mw.next /\ mw.token \in SessionBearers) =>
         /\ \A c \in Contests : Join(c) => out'.status # 401
         /\ SharedRequireAdmin => adm'.status # 401]_vars
====
